---- MODULE Spec2Model ----
(***************************************************************************)
(* Seekly installer scripts: pipx_install.py (pipx bootstrap, pipx         *)
(* install, PATH repair of the shell start-up file) and install.py         *)
(* (environment classifier and its decision table).                        *)
(*                                                                         *)
(* Strings are sequences of tokens.  Directory names, SHELL and PATH are   *)
(* sequences of one-character tokens, so that Python's substring test      *)
(* `a in b` is modelled as a real substring test.  The fixed text the      *)
(* installer writes is cut into a few multi-character tokens.              *)
(***************************************************************************)
EXTENDS Integers, Sequences, FiniteSets, TLC

VARIABLES
    script,     \* the script that is running: "pipx_install.py", "install.py",
                \* or "calls" for bare update_user_path calls
    pc,         \* the position of the running script
    system,     \* platform.system(): "Linux", "Darwin" or "Windows"
    debian,     \* os.path.exists("/etc/debian_version")
    hasBrew,    \* check_command_exists("brew")
    probe,      \* install.py: what check_environment finds
    envSHELL,   \* os.environ.get("SHELL", "")
    envPATH,    \* os.environ["PATH"] of the running process
    files,      \* the home directory: path -> content, or NoFile
    registry,   \* Windows: the persistent user PATH written by setx, or NoFile
    invoked,    \* the installing commands run so far, with their outcomes
    output,     \* install_pipx: the local `output`
    has_pipx,   \* install_seekly: check_command_exists("pipx"): "True", "False";
                \* "None" before
    seekly_path, \* ensure_seekly_runnable: the local seekly_path, <<>> for "",
                \* or None while not assigned
    answer,     \* install.py: the line input() read at the prompt, or None
    choice,     \* install.py: `choice` = input(...) or "1", or None
    bin_dir,    \* bin_dir of ensure_seekly_runnable / update_user_path
    rc_file,    \* shell_rc_file selected by the last update_user_path call
    events,     \* what the last update_user_path call did, in order
    ret,        \* path_updated: return value of the last update_user_path call
                \* or of ensure_seekly_runnable: "True", "False"; "None" before
    result,     \* return value of install_seekly, install_pipx (when it
                \* fails), create_venv or setup_pipx; "None" before
    printed     \* what the script has printed, one message per entry

vars == <<script, pc, system, debian, hasBrew, probe, envSHELL, envPATH, files,
          registry, invoked, output, answer, choice, bin_dir, rc_file, events,
          ret, result, printed, has_pipx, seekly_path>>

\* The variables update_user_path neither reads nor writes.
scriptVars == <<script, pc, debian, hasBrew, probe, invoked, output, answer, choice, result,
                has_pipx, seekly_path>>

(***************************************************************************)
(* Bounds of the model.                                                    *)
(***************************************************************************)
\* A run that would make a start-up file longer than this is not taken.
MaxFileLen == 30
\* A Windows run that would make PATH longer than this is not taken.
MaxPathLen == 14

\* A path at which no file exists; a value that is not set.  Both are
\* one-token sequences, distinct from every content.
NoFile == <<"(no file)">>
None == <<"(none)">>
\* install.py is not running: nothing is probed.
NoProbe == [venv |-> FALSE, marker |-> FALSE, writable |-> FALSE, pipx |-> FALSE]

(***************************************************************************)
(* Strings.                                                                *)
(***************************************************************************)
\* Python `needle in hay` for str: needle occurs as a contiguous substring.
Contains(needle, hay) ==
    \E i \in 0..(Len(hay) - Len(needle)) :
        \A k \in 1..Len(needle) : hay[i + k] = needle[k]

\* The number of positions at which needle occurs in hay.
CountOcc(needle, hay) ==
    Cardinality({i \in 0..(Len(hay) - Len(needle)) :
                    \A k \in 1..Len(needle) : hay[i + k] = needle[k]})

bash == <<"b", "a", "s", "h">>
zsh  == <<"z", "s", "h">>
fish == <<"f", "i", "s", "h">>

\* Values of SHELL.
BinBash   == <<"/", "b", "i", "n", "/", "b", "a", "s", "h">>
BinZsh    == <<"/", "b", "i", "n", "/", "z", "s", "h">>
BinFish   == <<"/", "b", "i", "n", "/", "f", "i", "s", "h">>
BinSh     == <<"/", "b", "i", "n", "/", "s", "h">>
BinKsh    == <<"/", "b", "i", "n", "/", "k", "s", "h">>
NoShell   == <<>>
\* /bashir/zsh : a zsh binary below a directory whose name contains "bash"
BashirZsh == <<"/", "b", "a", "s", "h", "i", "r", "/", "z", "s", "h">>
Shells == {BinBash, BinZsh, BinFish, BinSh, BinKsh, NoShell, BashirZsh}

\* Directories handed to update_user_path: /p and /pb (the first is a
\* substring of the second).
DirP  == <<"/", "p">>
DirPB == <<"/", "p", "b">>
BinDirs == {DirP, DirPB}

\* Values of PATH: /u and /u:/pb
PathU   == <<"/", "u">>
PathUPB == <<"/", "u", ":", "/", "p", "b">>
Paths == {PathU, PathUPB}

(***************************************************************************)
(* The shell start-up files.                                               *)
(***************************************************************************)
Profile    == <<"~/.profile">>
Bashrc     == <<"~/.bashrc">>
Zshrc      == <<"~/.zshrc">>
FishConfig == <<"~/.config/fish/config.fish">>
RcFiles == {Profile, Bashrc, Zshrc, FishConfig}

\* backup_file = f"{shell_rc_file}.seekly_bak"
BackupFile(rc) == rc \o <<".seekly_bak">>

AllFiles == RcFiles \cup {BackupFile(rc) : rc \in RcFiles}

\* Mutant: zsh is tested before bash.
ShellRcFileZshFirst(shell) ==
    IF Contains(zsh, shell) THEN Zshrc
    ELSE IF Contains(bash, shell) THEN Bashrc
    ELSE IF Contains(fish, shell) THEN FishConfig
    ELSE Profile

\* The start-up file update_user_path selects for a value of SHELL.
ShellRcFile(shell) ==
    IF Contains(bash, shell) THEN Bashrc
    ELSE IF Contains(zsh, shell) THEN Zshrc
    ELSE IF Contains(fish, shell) THEN FishConfig
    ELSE Profile

\* The block update_user_path appends for bin_dir.
PathLine(shell, dir) ==
    IF Contains(fish, shell)
    THEN <<"NL", "# Added by Seekly installer", "NL", "set -x PATH ">>
            \o dir \o <<" $PATH", "NL">>
    ELSE <<"NL", "# Added by Seekly installer", "NL", "export PATH=", "QUOTE">>
            \o dir \o <<":$PATH", "QUOTE", "NL">>

\* open(..., 'r').read() decodes the whole file; a byte that is not valid in
\* the locale's encoding raises UnicodeDecodeError.
Decodable(content) == \A i \in 1..Len(content) : content[i] # "xFF"

(***************************************************************************)
(* update_user_path(bin_dir)                                               *)
(***************************************************************************)
CopyOutcomes == {"ok", "fail", "partial"}

\* "Skip if already in PATH": bin_dir in os.environ.get("PATH", "")
OnPath(dir, path) == Contains(dir, path)

\* Mutant: the backup is copied whenever the start-up file exists.
NeedBackupAlways(fs, rc) == fs[rc] # NoFile

\* os.path.exists(shell_rc_file) and not os.path.exists(backup_file)
NeedBackup(fs, rc) == fs[rc] # NoFile /\ fs[BackupFile(rc)] = NoFile

\* shutil.copy(shell_rc_file, backup_file) inside try/except-pass.  The copy
\* succeeds, fails before the destination is created, or fails after the
\* destination was created and k tokens were written.
CopyResult(fs, rc, copy, k) ==
    CASE copy = "ok"      -> [fs EXCEPT ![BackupFile(rc)] = fs[rc]]
      [] copy = "fail"    -> fs
      [] copy = "partial" -> [fs EXCEPT ![BackupFile(rc)] = SubSeq(fs[rc], 1, k)]

\* Mutant: the backup step is left out.
BackupStepSkipped(fs, rc, copy, k) == fs

\* The backup step of update_user_path.
BackupStep(fs, rc, copy, k) ==
    IF NeedBackup(fs, rc) THEN CopyResult(fs, rc, copy, k) ELSE fs

\* "Check if bin_dir already in file": the file exists, can be read and
\* decoded, and holds bin_dir as a substring.  A failing read is swallowed
\* (except Exception: pass) and counts as "not in file".
AlreadyInFile(fs, rc, dir) ==
    /\ fs[rc] # NoFile
    /\ Decodable(fs[rc])
    /\ Contains(dir, fs[rc])

\* open(shell_rc_file, 'a+') and write: creates the file when missing.
Appended(fs, rc, line) ==
    [fs EXCEPT ![rc] = (IF @ = NoFile THEN <<>> ELSE @) \o line]

\* Mutant: a failed append is reported as success.
AppendFailureRetTrue == "True"

\* The value update_user_path returns when the append raised.
AppendFailureRet == "False"

\* The events of the backup step, for the record of the call.
BackupEvents(fs, rc, copy) ==
    IF NeedBackup(fs, rc) THEN <<"copy_" \o copy>> ELSE <<>>

\* One call of update_user_path(dir).  copy, k: outcome of shutil.copy when
\* it is attempted; appendOK: whether open(..., 'a+') and the write succeed;
\* setxOK: whether setx succeeds (its exit status is ignored by the code).
UpdateUserPath(dir, copy, k, appendOK, setxOK) ==
    /\ bin_dir' = dir
    /\ UNCHANGED <<system, envSHELL>>
    /\ IF system = "Windows"
       THEN /\ Len(envPATH) + 1 + Len(dir) <= MaxPathLen
            /\ registry' = IF setxOK THEN envPATH \o <<";">> \o dir ELSE registry
            /\ envPATH' = envPATH \o <<";">> \o dir
            /\ rc_file' = None
            /\ events' = <<"setx">>
            /\ ret' = "True"
            /\ UNCHANGED files
       ELSE LET rc   == ShellRcFile(envSHELL)
                fs1  == BackupStep(files, rc, copy, k)
                line == PathLine(envSHELL, dir)
            IN  /\ rc_file' = rc
                /\ UNCHANGED <<envPATH, registry>>
                /\ IF OnPath(dir, envPATH)
                   THEN /\ events' = <<"on_path">>
                        /\ ret' = "True"
                        /\ UNCHANGED files
                   ELSE IF AlreadyInFile(fs1, rc, dir)
                   THEN /\ events' = BackupEvents(files, rc, copy) \o <<"in_file">>
                        /\ ret' = "True"
                        /\ files' = fs1
                   ELSE IF appendOK
                   THEN /\ Len(Appended(fs1, rc, line)[rc]) <= MaxFileLen
                        /\ events' = BackupEvents(files, rc, copy) \o <<"append_ok">>
                        /\ ret' = "True"
                        /\ files' = Appended(fs1, rc, line)
                   ELSE /\ events' = BackupEvents(files, rc, copy) \o <<"append_fail">>
                        /\ ret' = AppendFailureRet
                        /\ files' = fs1

\* What update_user_path prints: only the error of a failed append.
UpdateUserPathOutput(evs) ==
    IF \E i \in 1..Len(evs) : evs[i] = "append_fail"
    THEN <<<<"Error updating shell config">>>> ELSE <<>>

(***************************************************************************)
(* SpecPath: update_user_path called any number of times in one process.   *)
(***************************************************************************)
\* Contents a start-up file may have before the installer ever ran: some
\* text, or some text with a byte that does not decode.
InitContents == {<<"t">>, <<"t", "xFF">>}

InitPath ==
    /\ system \in {"Linux", "Windows"}
    /\ envSHELL \in Shells
    /\ envPATH \in Paths
    /\ \E c \in InitContents, present \in SUBSET RcFiles :
         files = [f \in AllFiles |-> IF f \in present THEN c ELSE NoFile]
    /\ registry = NoFile
    /\ bin_dir = None
    /\ rc_file = None
    /\ events = <<>>
    /\ ret = "None"
    /\ has_pipx = "None"
    /\ seekly_path = None
    /\ printed = <<>>
    /\ script = "calls"
    /\ pc = "call"
    /\ debian = FALSE
    /\ hasBrew = FALSE
    /\ probe = NoProbe
    /\ invoked = <<>>
    /\ output = None
    /\ answer = None
    /\ choice = None
    /\ result = "None"

\* The outcomes of the operating-system calls of one update_user_path call
\* that the platform's branch can observe.
Outcomes(sys) ==
    IF sys = "Windows"
    THEN {[copy |-> "ok", k |-> 0, appendOK |-> TRUE, setxOK |-> b] : b \in BOOLEAN}
    ELSE {[copy |-> c, k |-> 0, appendOK |-> a, setxOK |-> TRUE] :
              c \in CopyOutcomes, a \in BOOLEAN}
         \cup {[copy |-> "partial", k |-> 1, appendOK |-> a, setxOK |-> TRUE] :
              a \in BOOLEAN}

\* A call of update_user_path; printed holds the output of the last call.
CallUpdateUserPath ==
    \E dir \in BinDirs, o \in Outcomes(system) :
        /\ script = "calls"
        /\ UpdateUserPath(dir, o.copy, o.k, o.appendOK, o.setxOK)
        /\ printed' = UpdateUserPathOutput(events')
        /\ UNCHANGED scriptVars

NextPath == CallUpdateUserPath

SpecPath == InitPath /\ [][NextPath]_vars

(***************************************************************************)
(* Claims about update_user_path, checked under SpecPath.                  *)
(***************************************************************************)
\* The last call appended its block to the start-up file.
DidAppend(evs) == \E i \in 1..Len(evs) : evs[i] = "append_ok"

\* C1: repeated update_user_path(d) calls (Unix branch, same SHELL, d not on
\* PATH) never leave two copies of the export/set line for d in a start-up
\* file, whatever the file held before.
C1_NoDuplicateLine ==
    \A rc \in RcFiles, d \in BinDirs :
        files[rc] # NoFile => CountOcc(PathLine(envSHELL, d), files[rc]) <= 1

\* C2 (as claimed): a call that edits the start-up file leaves a backup
\* behind it, and an existing backup is never overwritten.
C2_BackupOnFirstEdit ==
    [][/\ DidAppend(events') => files'[BackupFile(rc_file')] # NoFile
       /\ \A rc \in RcFiles :
            files[BackupFile(rc)] # NoFile
                => files'[BackupFile(rc)] = files[BackupFile(rc)]]_vars

\* C2 (amended): a call that edits a start-up file that already existed
\* leaves a backup behind (the pre-edit content, when this call copied it
\* and the copy succeeded) unless its copy failed before creating the
\* backup; a call that creates the start-up file makes no backup; an
\* existing backup is never overwritten.
C2_BackupOnceNeverOverwritten ==
    [][/\ \A rc \in RcFiles :
            files[BackupFile(rc)] # NoFile
                => files'[BackupFile(rc)] = files[BackupFile(rc)]
       /\ (DidAppend(events') /\ files[rc_file'] # NoFile
              /\ files[BackupFile(rc_file')] = NoFile)
            => /\ events'[1] \in {"copy_ok", "copy_fail", "copy_partial"}
               /\ events'[1] # "copy_fail" => files'[BackupFile(rc_file')] # NoFile
               /\ events'[1] = "copy_ok" => files'[BackupFile(rc_file')] = files[rc_file']
       /\ (DidAppend(events') /\ files[rc_file'] = NoFile)
            => files'[BackupFile(rc_file')] = files[BackupFile(rc_file')]]_vars

\* C2 witness: a later call edited the start-up file again while the backup
\* of an earlier call was in place.
C2_Witness ==
    /\ events = <<"append_ok">>
    /\ rc_file # None
    /\ files[BackupFile(rc_file)] # NoFile
    /\ CountOcc(<<"# Added by Seekly installer">>, files[rc_file]) >= 2

\* C3 (as claimed): whenever an existing start-up file has just been
\* appended to, its backup exists.
C3_AppendOnlyWithBackup ==
    [][(DidAppend(events') /\ files[rc_file'] # NoFile)
          => files'[BackupFile(rc_file')] # NoFile]_vars

\* C3 (amended): the backup is attempted before the append; an existing
\* start-up file is appended to without a backup only when the copy
\* attempted by that same call failed.
C3_AppendAfterBackupAttempt ==
    [][(DidAppend(events') /\ files[rc_file'] # NoFile)
          => \/ files'[BackupFile(rc_file')] # NoFile
             \/ events' = <<"copy_fail", "append_ok">>]_vars

\* C3 witness: an existing start-up file was backed up and then appended to.
C3_Witness ==
    /\ events = <<"copy_ok", "append_ok">>
    /\ files[BackupFile(rc_file)] # NoFile
    /\ files[rc_file] = files[BackupFile(rc_file)] \o PathLine(envSHELL, bin_dir)

\* The start-up files other than the fallback that some value of SHELL selects.
RecognizedFiles == {ShellRcFile(s) : s \in Shells} \ {Profile}

\* C4 (as claimed): four shell indicators are recognized, each with its own
\* start-up file, and every other value of SHELL selects ~/.profile.
C4_FourRecognizedShells ==
    /\ Cardinality(RecognizedFiles) = 4
    /\ rc_file # None =>
         (rc_file = Profile <=> ShellRcFile(envSHELL) \notin RecognizedFiles)

\* C4 (amended): three indicators are recognized, by substring and in this
\* order: "bash" -> ~/.bashrc, "zsh" -> ~/.zshrc, "fish" ->
\* ~/.config/fish/config.fish; every other value, the empty one included,
\* selects ~/.profile.
C4_ThreeRecognizedShells ==
    /\ Cardinality(RecognizedFiles) = 3
    /\ rc_file # None =>
        /\ envSHELL = BinBash => rc_file = Bashrc
        /\ envSHELL = BinZsh => rc_file = Zshrc
        /\ envSHELL = BinFish => rc_file = FishConfig
        /\ envSHELL \in {BinSh, BinKsh, NoShell} => rc_file = Profile
        /\ envSHELL = BashirZsh => rc_file = Bashrc
        /\ Contains(bash, envSHELL) => rc_file = Bashrc
        /\ (~Contains(bash, envSHELL) /\ Contains(zsh, envSHELL)) => rc_file = Zshrc
        /\ (~Contains(bash, envSHELL) /\ ~Contains(zsh, envSHELL)
               /\ Contains(fish, envSHELL)) => rc_file = FishConfig
        /\ (~Contains(bash, envSHELL) /\ ~Contains(zsh, envSHELL)
               /\ ~Contains(fish, envSHELL)) => rc_file = Profile

\* C4 witness: a call under SHELL=/bin/fish selected the fish start-up file
\* and appended the fish form of the line to it.
C4_Witness ==
    /\ envSHELL = BinFish
    /\ rc_file = FishConfig
    /\ DidAppend(events)

(***************************************************************************)
(* pipx_install.py: install_seekly, install_pipx, ensure_seekly_runnable.  *)
(* One step per installing command.  `command -v` probes are inputs of     *)
(* the step that reads them and are not logged in `invoked`.               *)
(***************************************************************************)
\* The installing commands.
PipUser        == "python -m pip install --user pipx"
PyEnsurePath   == "python -m pipx ensurepath"
AptInstall     == "sudo apt install -y pipx"
BrewInstall    == "brew install pipx"
PipxEnsurePath == "pipx ensurepath"
PipxInstall    == "pipx install --force"
Strategies == <<PipUser, AptInstall, BrewInstall>>

\* Captured stdout + stderr of a command run with capture=True.
Outs == {"out a", "out b"}
\* run_command(..., capture=False) returns "" as output.
NoCapture == ""

\* get_package_source(): the local checkout or the GitHub source.
PackageSources == {<<".">>, <<"git+https://github.com/Dhodraj/seekly.git">>}

Run(cmd, ok, out) == [cmd |-> cmd, ok |-> ok, out |-> out]

\* Mutant: pipx install goes ahead although the last strategy failed.
AfterStrategy3Ignored(ok) == "pipx_install"

\* install_pipx after strategy 3 (lines 115-120).
AfterStrategy3(ok) == IF ok THEN "pipx_install" ELSE "pipx_failed"

\* install_pipx after strategy 2, or when strategy 2 does not apply
\* (lines 108-112).
AfterStrategy2(ok) ==
    IF ok THEN "pipx_install"
    ELSE IF system = "Darwin" /\ hasBrew THEN "strategy3"
    ELSE "pipx_failed"

\* Mutant: strategy 1 does not return on success, the apt strategy follows.
AfterStrategy1FallsThrough(ok) ==
    IF debian THEN "strategy2" ELSE AfterStrategy2(ok)

\* install_pipx after strategy 1 (lines 99-105).
AfterStrategy1(ok) ==
    IF ok THEN "pipx_install"
    ELSE IF debian THEN "strategy2"
    ELSE AfterStrategy2(FALSE)

\* Mutant: only the first strategy's output is kept.
CapturedOutputFirst(prev, out) == IF prev = None THEN <<out>> ELSE prev

\* `success, output = run_command(...)`: the local output is overwritten.
CapturedOutput(prev, out) == <<out>>

\* os.environ.get("PATH", "").split(os.pathsep)
RECURSIVE Split(_, _)
Split(str, sep) ==
    IF \A i \in 1..Len(str) : str[i] # sep THEN <<str>>
    ELSE LET i == CHOOSE j \in 1..Len(str) :
                    str[j] = sep /\ \A m \in 1..(j - 1) : str[m] # sep
         IN  <<SubSeq(str, 1, i - 1)>> \o Split(SubSeq(str, i + 1, Len(str)), sep)

PathSep == IF system = "Windows" THEN ";" ELSE ":"

\* os.path.join(bin_dir, "seekly")
SeeklyPath(dir) == dir \o <<"/", "seekly">>

\* install_seekly, lines 252-262: header, check_command_exists("pipx").
Start ==
    /\ script = "pipx_install.py" /\ pc = "start"
    /\ \E found \in BOOLEAN :
         IF found
         THEN /\ has_pipx' = "True"
              /\ pc' = "pipx_install"
              /\ printed' = <<<<"Seekly CLI Installer">>>>
         ELSE /\ has_pipx' = "False"
              /\ pc' = "strategy1"
              /\ printed' = << <<"Seekly CLI Installer">>,
                               <<"pipx not found. It's needed to install Seekly as a CLI tool.">>,
                               <<"Installing pipx...">> >>
    /\ UNCHANGED <<seekly_path, script, system, debian, hasBrew, probe, envSHELL, envPATH,
                   files, registry, invoked, output, answer, choice, bin_dir, rc_file,
                   events, ret, result>>

\* install_pipx, strategy 1: pip install --user pipx, then pipx ensurepath.
Strategy1 ==
    /\ script = "pipx_install.py" /\ pc = "strategy1"
    /\ \E ok \in BOOLEAN, out \in Outs, ok2 \in BOOLEAN :
         /\ output' = CapturedOutput(output, out)
         /\ invoked' = IF ok
                       THEN invoked \o <<Run(PipUser, ok, out),
                                         Run(PyEnsurePath, ok2, NoCapture)>>
                       ELSE Append(invoked, Run(PipUser, ok, out))
         /\ pc' = AfterStrategy1(ok)
    /\ UNCHANGED <<has_pipx, seekly_path, script, system, debian, hasBrew, probe, envSHELL, envPATH, files,
                   registry, answer, choice, bin_dir, rc_file, events, ret, result,
                   printed>>

\* install_pipx, strategy 2: apt, on Debian-family systems.
Strategy2 ==
    /\ script = "pipx_install.py" /\ pc = "strategy2"
    /\ \E ok \in BOOLEAN, out \in Outs :
         /\ output' = CapturedOutput(output, out)
         /\ invoked' = Append(invoked, Run(AptInstall, ok, out))
         /\ pc' = AfterStrategy2(ok)
         /\ printed' = Append(printed, <<"Trying to install pipx via apt...">>)
    /\ UNCHANGED <<has_pipx, seekly_path, script, system, debian, hasBrew, probe, envSHELL, envPATH, files,
                   registry, answer, choice, bin_dir, rc_file, events, ret, result>>

\* install_pipx, strategy 3: Homebrew, on macOS when brew is found.
Strategy3 ==
    /\ script = "pipx_install.py" /\ pc = "strategy3"
    /\ \E ok \in BOOLEAN, out \in Outs, ok2 \in BOOLEAN :
         /\ output' = CapturedOutput(output, out)
         /\ invoked' = IF ok
                       THEN invoked \o <<Run(BrewInstall, ok, out),
                                         Run(PipxEnsurePath, ok2, NoCapture)>>
                       ELSE Append(invoked, Run(BrewInstall, ok, out))
         /\ pc' = AfterStrategy3(ok)
         /\ printed' = Append(printed, <<"Trying to install pipx via Homebrew...">>)
    /\ UNCHANGED <<has_pipx, seekly_path, script, system, debian, hasBrew, probe, envSHELL, envPATH, files,
                   registry, answer, choice, bin_dir, rc_file, events, ret, result>>

\* install_pipx lines 119-120 and install_seekly lines 264-269: the failure
\* report of install_pipx, its return False, and the caller's manual steps.
PipxFailed ==
    /\ script = "pipx_install.py" /\ pc = "pipx_failed"
    /\ printed' = printed \o
          << <<"Failed to install pipx. Error details:">> \o output,
             <<"Could not install pipx automatically.">>,
             <<"Please install pipx manually and try again:">>,
             <<"pip install --user pipx">>,
             <<"python -m pipx ensurepath">> >>
    /\ result' = "False"
    /\ pc' = "done"
    /\ UNCHANGED <<has_pipx, seekly_path, script, system, debian, hasBrew, probe, envSHELL, envPATH, files,
                   registry, invoked, output, answer, choice, bin_dir, rc_file, events, ret>>

\* install_seekly lines 271-281 and 320-324: pipx install of Seekly.
PipxInstallSeekly ==
    /\ script = "pipx_install.py" /\ pc = "pipx_install"
    /\ \E src \in PackageSources, ok \in BOOLEAN :
         /\ invoked' = Append(invoked, Run(PipxInstall, ok, NoCapture))
         /\ IF ok
            THEN /\ printed' = printed \o
                      << <<"Installing Seekly from">> \o src,
                         <<"Seekly CLI installed successfully!">> >>
                 /\ pc' = "ensure"
                 /\ UNCHANGED result
            ELSE /\ printed' = printed \o
                      << <<"Installing Seekly from">> \o src,
                         <<"Installation failed.">>,
                         <<"Try installing manually with:">>,
                         <<"pipx install">> \o src >>
                 /\ pc' = "done"
                 /\ result' = "False"
    /\ UNCHANGED <<has_pipx, seekly_path, script, system, debian, hasBrew, probe, envSHELL, envPATH, files,
                   registry, output, answer, choice, bin_dir, rc_file, events, ret>>

\* ensure_seekly_runnable lines 216-241: locate the seekly binary.
\* runnable: check_command_exists("seekly"); dir: get_pipx_bin_dir();
\* inBinDir: os.path.exists(seekly_path); i: the first directory of PATH
\* that holds seekly, 0 when none does.
EnsureSeeklyRunnable ==
    /\ script = "pipx_install.py" /\ pc = "ensure"
    /\ \E runnable \in BOOLEAN, dir \in BinDirs, inBinDir \in BOOLEAN,
          i \in 0..Len(Split(envPATH, PathSep)) :
         IF runnable
         THEN /\ ret' = "True" /\ bin_dir' = <<>> /\ pc' = "report"
              /\ seekly_path' = seekly_path
         ELSE IF inBinDir
         THEN /\ ret' = ret /\ bin_dir' = dir /\ pc' = "update"
              /\ seekly_path' = SeeklyPath(dir)
         ELSE IF i > 0
         THEN /\ ret' = ret /\ bin_dir' = Split(envPATH, PathSep)[i] /\ pc' = "update"
              /\ seekly_path' = SeeklyPath(Split(envPATH, PathSep)[i])
         ELSE /\ ret' = "False" /\ bin_dir' = dir /\ pc' = "report"
              /\ seekly_path' = <<>>
    /\ UNCHANGED <<has_pipx, script, system, debian, hasBrew, probe, envSHELL, envPATH,
                   files, registry, invoked, output, answer, choice, rc_file, events,
                   result, printed>>

\* ensure_seekly_runnable lines 243-245: update_user_path(bin_dir).
UpdatePath ==
    /\ script = "pipx_install.py" /\ pc = "update"
    /\ \E o \in Outcomes(system) :
         UpdateUserPath(bin_dir, o.copy, o.k, o.appendOK, o.setxOK)
    /\ printed' = printed \o UpdateUserPathOutput(events')
    /\ pc' = "report"
    /\ UNCHANGED <<has_pipx, seekly_path, script, debian, hasBrew, probe, invoked,
                   output, answer, choice, result>>

\* "To use Seekly in this terminal session, run: source <file>"
SourceHint ==
    IF system = "Windows"
    THEN <<"NOTE: You may need to open a new terminal window first.">>
    ELSE IF Contains(bash, envSHELL) THEN <<"source">> \o Bashrc
    ELSE IF Contains(zsh, envSHELL) THEN <<"source">> \o Zshrc
    ELSE IF Contains(fish, envSHELL) THEN <<"source">> \o FishConfig
    ELSE <<"source">> \o Profile

\* Mutant: the degraded message is not printed.
ManualPathNoteMissing(dir) == <<>>

\* The degraded message of install_seekly (lines 313-317).
ManualPathNote(dir) ==
    << <<"NOTE: Seekly was installed successfully, but you may need to add to your PATH:">> \o dir,
       <<"Until then, you can use Seekly with:">> \o SeeklyPath(dir) >>

\* install_seekly lines 285-319: the final report, return True.
Report ==
    /\ script = "pipx_install.py" /\ pc = "report"
    /\ printed' = IF ret = "True"
                  THEN printed \o << <<"Seekly command is now available!">>,
                                     SourceHint,
                                     <<"Then you can use commands like: seekly --help">> >>
                  ELSE printed \o ManualPathNote(bin_dir)
    /\ result' = "True"
    /\ pc' = "done"
    /\ UNCHANGED <<has_pipx, seekly_path, script, system, debian, hasBrew, probe, envSHELL, envPATH, files,
                   registry, invoked, output, answer, choice, bin_dir, rc_file, events, ret>>

\* Start-up files of a home directory before install_seekly runs.
InitPipx ==
    /\ script = "pipx_install.py"
    /\ pc = "start"
    /\ system \in {"Linux", "Darwin", "Windows"}
    /\ debian \in BOOLEAN
    /\ hasBrew \in BOOLEAN
    /\ probe = NoProbe
    /\ envSHELL \in {BinBash, BinFish, NoShell}
    /\ envPATH \in Paths
    /\ \E c \in InitContents, present \in {{}, RcFiles} :
         files = [f \in AllFiles |-> IF f \in present THEN c ELSE NoFile]
    /\ registry = NoFile
    /\ invoked = <<>>
    /\ output = None
    /\ answer = None
    /\ choice = None
    /\ bin_dir = None
    /\ rc_file = None
    /\ events = <<>>
    /\ ret = "None"
    /\ has_pipx = "None"
    /\ seekly_path = None
    /\ result = "None"
    /\ printed = <<>>

NextPipx ==
    \/ Start
    \/ Strategy1
    \/ Strategy2
    \/ Strategy3
    \/ PipxFailed
    \/ PipxInstallSeekly
    \/ EnsureSeeklyRunnable
    \/ UpdatePath
    \/ Report

(***************************************************************************)
(* install.py: check_environment, main, setup_pipx, create_venv.           *)
(***************************************************************************)
\* check_environment(): the environment record main reads.  The
\* externally-managed and Debian flags are probed on Linux only.
CheckEnvironment ==
    [is_venv |-> probe.venv,
     is_linux |-> system = "Linux",
     is_debian_based |-> system = "Linux" /\ debian,
     is_externally_managed |-> system = "Linux" /\ probe.marker,
     can_write_to_site_packages |-> probe.writable]

\* Mutant: the externally-managed row is tested before the venv row.
RecommendationManagedFirst(env) ==
    IF env.is_externally_managed THEN "pipx or venv"
    ELSE IF env.is_venv THEN "direct"
    ELSE IF ~env.can_write_to_site_packages THEN "venv or user"
    ELSE "venv, pipx or direct"

\* Mutant: the writable row is tested before the externally-managed row.
RecommendationWritableFirst(env) ==
    IF env.is_venv THEN "direct"
    ELSE IF ~env.can_write_to_site_packages THEN "venv or user"
    ELSE IF env.is_externally_managed THEN "pipx or venv"
    ELSE "venv, pipx or direct"

\* main(), lines 141-169: the decision table, first match wins.
Recommendation(env) ==
    IF env.is_venv THEN "direct"
    ELSE IF env.is_externally_managed THEN "pipx or venv"
    ELSE IF ~env.can_write_to_site_packages THEN "venv or user"
    ELSE "venv, pipx or direct"

\* What main prints for each row of the table.
RecommendationText(row) ==
    CASE row = "direct" ->
           << <<"You're already in a virtual environment. You can install directly with pip.">>,
              <<"Run: pip install seekly">> >>
      [] row = "pipx or venv" ->
           << <<"Your Python environment is externally managed (PEP 668).">>,
              <<"1. Use pipx (recommended)">>,
              <<"2. Create a virtual environment">> >>
      [] row = "venv or user" ->
           << <<"You don't have write permission to the Python site-packages directory.">>,
              <<"1. Create a virtual environment (recommended)">>,
              <<"2. Use pip with --user flag">> >>
      [] row = "venv, pipx or direct" ->
           << <<"You can install Seekly in multiple ways:">>,
              <<"1. Create a virtual environment (recommended)">>,
              <<"2. Install with pipx">>,
              <<"3. Install directly with pip">> >>

\* main(), lines 185-186: printed at the end of every run.
Footer ==
    << <<"For more information, refer to the README.md or visit: https://github.com/Dhodraj/seekly">> >>

\* Lines read at the prompt: empty, the offered numbers, anything else.
Answers == {<<>>, <<"1">>, <<"2">>, <<"3">>, <<"x">>}

\* choice = input(...) or "1"
Choice(line) == IF line = <<>> THEN <<"1">> ELSE line

\* What main does with the choice in each row: the function it calls, or
\* "print" when it only prints a command.
Dispatch(row, ch) ==
    CASE row = "pipx or venv" ->
           IF ch = <<"1">> THEN "setup_pipx" ELSE "create_venv"
      [] row = "venv or user" ->
           IF ch = <<"1">> THEN "create_venv" ELSE "print"
      [] row = "venv, pipx or direct" ->
           IF ch = <<"1">> THEN "create_venv"
           ELSE IF ch = <<"2">> THEN "setup_pipx" ELSE "print"

VenvCmd == "python -m venv seekly-env"

\* main(), lines 124-148: probe the environment, print the recommendation.
Classify ==
    /\ script = "install.py" /\ pc = "main"
    /\ LET row == Recommendation(CheckEnvironment)
       IN  IF row = "direct"
           THEN /\ printed' = << <<"Seekly Installation Helper">> >>
                                 \o RecommendationText(row) \o Footer
                /\ pc' = "done"
           ELSE /\ printed' = << <<"Seekly Installation Helper">> >>
                                 \o RecommendationText(row)
                /\ pc' = "prompt"
    /\ UNCHANGED <<has_pipx, seekly_path, script, system, debian, hasBrew, probe, envSHELL, envPATH, files,
                   registry, invoked, output, answer, choice, bin_dir, rc_file,
                   events, ret, result>>

\* main(): input() and the dispatch on the choice.
Prompt ==
    /\ script = "install.py" /\ pc = "prompt"
    /\ \E line \in Answers :
         LET row == Recommendation(CheckEnvironment)
             to  == Dispatch(row, Choice(line))
         IN  /\ answer' = line
             /\ choice' = Choice(line)
             /\ IF to = "print"
                THEN /\ pc' = "done"
                     /\ printed' = printed
                          \o (IF row = "venv or user"
                              THEN << <<"To install for your user only, run: python -m pip install --user seekly">> >>
                              ELSE << <<"To install with pip, run: python -m pip install seekly">> >>)
                          \o Footer
                ELSE /\ pc' = to
                     /\ printed' = printed
    /\ UNCHANGED <<has_pipx, seekly_path, script, system, debian, hasBrew, probe, envSHELL, envPATH, files,
                   registry, invoked, output, bin_dir, rc_file, events, ret, result>>

\* setup_pipx(), then the footer of main.
SetupPipx ==
    /\ script = "install.py" /\ pc = "setup_pipx"
    /\ IF probe.pipx
       THEN /\ printed' = printed \o << <<"pipx is already installed.">> >> \o Footer
            /\ result' = "True"
            /\ UNCHANGED invoked
       ELSE \E ok \in BOOLEAN, err \in Outs, ok2 \in BOOLEAN :
              IF ok
              THEN /\ invoked' = invoked \o <<Run(PipUser, ok, err),
                                             Run(PipxEnsurePath, ok2, NoCapture)>>
                   /\ printed' = printed \o
                        << <<"Installing pipx...">>,
                           <<"pipx installed successfully!">>,
                           <<"To install Seekly with pipx, run: pipx install seekly">> >>
                        \o Footer
                   /\ result' = "True"
              ELSE /\ invoked' = Append(invoked, Run(PipUser, ok, err))
                   /\ printed' = printed \o
                        << <<"Installing pipx...">>,
                           <<"Error installing pipx:", err>> >>
                        \o Footer
                   /\ result' = "False"
    /\ pc' = "done"
    /\ UNCHANGED <<has_pipx, seekly_path, script, system, debian, hasBrew, probe, envSHELL, envPATH, files,
                   registry, output, answer, choice, bin_dir, rc_file, events, ret>>

\* create_venv(), then the footer of main.
CreateVenv ==
    /\ script = "install.py" /\ pc = "create_venv"
    /\ \E ok \in BOOLEAN, err \in Outs :
         /\ invoked' = Append(invoked, Run(VenvCmd, ok, err))
         /\ IF ok
            THEN /\ printed' = printed \o
                      << <<"Creating virtual environment at seekly-env...">>,
                         <<"Virtual environment created successfully!">>,
                         IF system = "Windows"
                         THEN <<"To activate and use, run: seekly-env\\Scripts\\activate">>
                         ELSE <<"To activate and use, run: source seekly-env/bin/activate">>,
                         <<"Then install Seekly with: python -m pip install seekly">> >>
                      \o Footer
                 /\ result' = "True"
            ELSE /\ printed' = printed \o
                      << <<"Creating virtual environment at seekly-env...">>,
                         <<"Error creating virtual environment:", err>> >>
                      \o Footer
                 /\ result' = "False"
    /\ pc' = "done"
    /\ UNCHANGED <<has_pipx, seekly_path, script, system, debian, hasBrew, probe, envSHELL, envPATH, files,
                   registry, output, answer, choice, bin_dir, rc_file, events, ret>>

\* The environments install.py may find.
InitMain ==
    /\ script = "install.py"
    /\ pc = "main"
    /\ system \in {"Linux", "Darwin", "Windows"}
    /\ debian \in BOOLEAN
    /\ hasBrew = FALSE
    /\ probe \in [venv : BOOLEAN, marker : BOOLEAN, writable : BOOLEAN, pipx : BOOLEAN]
    /\ envSHELL = NoShell
    /\ envPATH = PathU
    /\ files = [f \in AllFiles |-> NoFile]
    /\ registry = NoFile
    /\ invoked = <<>>
    /\ output = None
    /\ answer = None
    /\ choice = None
    /\ bin_dir = None
    /\ rc_file = None
    /\ events = <<>>
    /\ ret = "None"
    /\ has_pipx = "None"
    /\ seekly_path = None
    /\ result = "None"
    /\ printed = <<>>

NextMain ==
    \/ Classify
    \/ Prompt
    \/ SetupPipx
    \/ CreateVenv

(***************************************************************************)
(* Spec: one run of either script.                                         *)
(***************************************************************************)
Init == InitPipx \/ InitMain

Next == NextPipx \/ NextMain

Spec == Init /\ [][Next]_vars

(***************************************************************************)
(* Claims about the scripts, checked under Spec.                           *)
(***************************************************************************)
Has(msg) == \E i \in 1..Len(printed) : printed[i] = msg

\* The positions in `invoked` of the strategies of install_pipx.
StrategyRuns == {i \in 1..Len(invoked) :
                    invoked[i].cmd \in {PipUser, AptInstall, BrewInstall}}
StrategyNo(cmd) == CHOOSE n \in 1..3 : Strategies[n] = cmd

\* The strategies of install_pipx that apply on this machine.
Applicable ==
    {PipUser} \cup (IF debian THEN {AptInstall} ELSE {})
              \cup (IF system = "Darwin" /\ hasBrew THEN {BrewInstall} ELSE {})

\* C5: install_pipx tries pip --user, then apt (Debian-family), then
\* Homebrew (macOS), in this order and each at most once, and invokes no
\* strategy after an earlier one has succeeded.
C5_StrategyOrder ==
    script = "pipx_install.py" =>
        /\ \A i, j \in StrategyRuns :
             i < j => /\ ~invoked[i].ok
                      /\ StrategyNo(invoked[i].cmd) < StrategyNo(invoked[j].cmd)
        /\ StrategyRuns # {} => invoked[1].cmd = PipUser
        /\ \A i \in StrategyRuns : invoked[i].cmd \in Applicable

\* C5 witness: on a Debian-family machine strategy 1 succeeded and the run
\* ended without apt having been invoked.
C5_Witness ==
    /\ script = "pipx_install.py" /\ pc = "done" /\ debian
    /\ StrategyRuns = {1}
    /\ invoked[1].ok

\* install_pipx has returned False.
PipxBootstrapFailed ==
    script = "pipx_install.py" /\ Has(<<"Could not install pipx automatically.">>)

FailureReports ==
    {i \in 1..Len(printed) : printed[i][1] = "Failed to install pipx. Error details:"}

\* C6: when install_pipx fails, every applicable strategy was tried and
\* failed, there is one failure report, it carries the captured output of
\* the last strategy tried, and the result is False.
C6_SingleTerminalFailure ==
    /\ (script = "pipx_install.py" /\ pc = "pipx_failed")
          => /\ {invoked[i].cmd : i \in StrategyRuns} = Applicable
             /\ \A i \in StrategyRuns : ~invoked[i].ok
             /\ FailureReports = {}
    /\ PipxBootstrapFailed
          => /\ {invoked[i].cmd : i \in StrategyRuns} = Applicable
             /\ \A i \in StrategyRuns : ~invoked[i].ok
             /\ Cardinality(FailureReports) = 1
             /\ \A i \in FailureReports :
                  printed[i] = <<"Failed to install pipx. Error details:",
                                 invoked[Len(invoked)].out>>
             /\ result = "False"
             /\ pc = "done"
    /\ (script = "pipx_install.py" /\ FailureReports # {}) => PipxBootstrapFailed

\* C6 witness: two strategies failed with different outputs and the run
\* ended with the failure report.
C6_Witness ==
    /\ PipxBootstrapFailed
    /\ Len(invoked) >= 2
    /\ invoked[1].out # invoked[Len(invoked)].out

\* The functions main has called.
RanSetupPipx ==
    pc = "setup_pipx" \/ Has(<<"pipx is already installed.">>) \/ Has(<<"Installing pipx...">>)
RanCreateVenv ==
    pc = "create_venv" \/ Has(<<"Creating virtual environment at seekly-env...">>)

\* C7: with the virtual-environment flag true main recommends the direct
\* pip install whatever the other flags are, issues no prompt and starts
\* neither a venv nor a pipx action.
C7_VenvWins ==
    (script = "install.py" /\ pc # "main" /\ CheckEnvironment.is_venv)
        => /\ pc = "done"
           /\ printed = << <<"Seekly Installation Helper">> >>
                          \o RecommendationText("direct") \o Footer
           /\ answer = None /\ choice = None
           /\ invoked = <<>>
           /\ ~RanSetupPipx /\ ~RanCreateVenv

\* C7 witness: a run in a venv on an externally managed Linux without write
\* permission has ended.
C7_Witness ==
    /\ script = "install.py" /\ pc = "done"
    /\ CheckEnvironment.is_venv
    /\ CheckEnvironment.is_externally_managed
    /\ ~CheckEnvironment.can_write_to_site_packages

IsManualStep(msg) ==
    \/ msg \in { <<"Please install pipx manually and try again:">>,
                 <<"pip install --user pipx">>,
                 <<"python -m pipx ensurepath">>,
                 <<"Try installing manually with:">> }
    \/ msg[1] \in { "pipx install",
                    "NOTE: Seekly was installed successfully, but you may need to add to your PATH:",
                    "Until then, you can use Seekly with:" }

\* A failure path was taken: a function returned False.
Failed == result = "False" \/ ret = "False"

\* C9 (as claimed): every failure path of both scripts ends, and ends in
\* printed instructions telling the operator what to do by hand.
C9_FailureEndsInManualSteps ==
    /\ pc # "done" => ENABLED Next
    /\ (pc = "done" /\ Failed) => IsManualStep(printed[Len(printed)])

\* C9 (amended): every failure path ends.  In pipx_install.py it ends in
\* manual steps: for a failed pipx bootstrap, a failed pipx install, or a
\* failed PATH repair.  In install.py a failed create_venv or setup_pipx
\* ends in the captured error text followed by the pointer to the README
\* that every run prints, and no manual step.
C9_FailurePathsEnd ==
    /\ pc # "done" => ENABLED Next
    /\ (pc = "done" /\ Failed /\ script = "pipx_install.py")
          => /\ IsManualStep(printed[Len(printed)])
             /\ PipxBootstrapFailed
                  => printed[Len(printed)] = <<"python -m pipx ensurepath">>
             /\ (result = "False" /\ ~PipxBootstrapFailed)
                  => printed[Len(printed)][1] = "pipx install"
             /\ ret = "False"
                  => /\ result = "True"
                     /\ printed[Len(printed)] =
                          <<"Until then, you can use Seekly with:">> \o SeeklyPath(bin_dir)
    /\ (pc = "done" /\ Failed /\ script = "install.py")
          => /\ printed[Len(printed)] = Footer[1]
             /\ printed[Len(printed) - 1][1] \in
                  {"Error creating virtual environment:", "Error installing pipx:"}
             /\ \A i \in 1..Len(printed) : ~IsManualStep(printed[i])

\* C9 witness: the PATH repair failed and the run ended with the manual
\* steps.
C9_Witness ==
    /\ script = "pipx_install.py" /\ pc = "done"
    /\ ret = "False" /\ result = "True"
    /\ IsManualStep(printed[Len(printed)])

\* The last update_user_path call failed to append.
AppendFailed == \E i \in 1..Len(events) : events[i] = "append_fail"

\* C10: a failed append is caught, update_user_path returns False after
\* printing the error, and install_seekly goes on to print the manual steps
\* naming the bin directory and returns True.
C10_AppendFailureDegrades ==
    (script = "pipx_install.py" /\ AppendFailed)
        => /\ ret = "False"
           /\ Has(<<"Error updating shell config">>)
           /\ pc \in {"report", "done"}
           /\ pc = "report" => ENABLED Report
           /\ pc = "done"
                => /\ result = "True"
                   /\ SubSeq(printed, Len(printed) - 1, Len(printed))
                        = << <<"NOTE: Seekly was installed successfully, but you may need to add to your PATH:">> \o bin_dir,
                             <<"Until then, you can use Seekly with:">> \o SeeklyPath(bin_dir) >>
                   /\ ~Has(<<"Seekly command is now available!">>)

\* C10 witness: the append failed and install_seekly has returned.
C10_Witness ==
    /\ script = "pipx_install.py" /\ pc = "done"
    /\ AppendFailed
    /\ result = "True"

\* The pipx install of Seekly has been run and succeeded.
SeeklyInstalled ==
    \E i \in 1..Len(invoked) : invoked[i].cmd = PipxInstall /\ invoked[i].ok

\* The pipx install of Seekly has been run and failed.
SeeklyInstallFailed ==
    \E i \in 1..Len(invoked) : invoked[i].cmd = PipxInstall /\ ~invoked[i].ok

\* The gates of install_seekly, on the steps of one run: pipx install is
\* invoked only when pipx was found or a bootstrap strategy succeeded; the
\* start-up files and backups change only in the update_user_path step,
\* after a successful pipx install and with the seekly binary located; a
\* run that ends on a failed bootstrap or a failed pipx install never
\* called update_user_path and returns False.
GatesHold ==
    /\ (Len(invoked') > Len(invoked) /\ invoked'[Len(invoked')].cmd = PipxInstall)
          => \/ has_pipx = "True"
             \/ /\ has_pipx = "False"
                /\ \E i \in StrategyRuns : invoked[i].ok
    /\ (files' # files \/ events' # events)
          => /\ pc = "update" /\ pc' = "report"
             /\ SeeklyInstalled
             /\ seekly_path \notin {None, <<>>}
             /\ seekly_path = SeeklyPath(bin_dir)
    /\ (pc # "done" /\ pc' = "done" /\ (PipxBootstrapFailed' \/ SeeklyInstallFailed'))
          => /\ result' = "False"
             /\ events' = <<>> /\ rc_file' = None /\ seekly_path' = None

\* The seekly binary was looked for and not found, at the end of the run.
EndsNotLocated == pc # "done" /\ pc' = "done" /\ seekly_path' = <<>>

\* C11 (as claimed): the steps of install_seekly are gated in order, and on
\* any failure before the start-up file is touched (pipx bootstrap, pipx
\* install, locating the seekly binary) the start-up file and backup are
\* left alone and install_seekly returns False.
C11_GatedFailureReturnsFalse ==
    [][script = "pipx_install.py" =>
          /\ GatesHold
          /\ EndsNotLocated
                => events' = <<>> /\ rc_file' = None /\ result' = "False"]_vars

\* C11 (amended): the steps of install_seekly are gated in order; a failed
\* pipx bootstrap or a failed pipx install leaves the start-up file and
\* backup alone and install_seekly returns False; when the seekly binary is
\* not located the start-up file and backup are left alone too, but
\* install_seekly prints the manual PATH note and returns True.
C11_GatedInOrder ==
    [][script = "pipx_install.py" =>
          /\ GatesHold
          /\ EndsNotLocated
                => /\ events' = <<>> /\ rc_file' = None
                   /\ ret' = "False"
                   /\ result' = "True"
                   /\ printed'[Len(printed')] =
                        <<"Until then, you can use Seekly with:">> \o SeeklyPath(bin_dir')]_vars

\* C11 witness: pipx was missing, a bootstrap strategy succeeded, pipx
\* install succeeded, the binary was located and the start-up file was
\* appended to.
C11_Witness ==
    /\ script = "pipx_install.py" /\ pc = "done"
    /\ has_pipx = "False"
    /\ SeeklyInstalled
    /\ seekly_path = SeeklyPath(bin_dir)
    /\ DidAppend(events)
    /\ Contains(PathLine(envSHELL, bin_dir), files[rc_file])

====
